---- MODULE Spec2Model ----
(***************************************************************************)
(* Model of src/lib.js: the friends iterator (Iterator, LimitedIterator),  *)
(* the filters (Filter, MaleFilter, FemaleFilter) and the graph analysis   *)
(* behind them (findConnectedComponents, breadthSearch, getFriendsLevels,  *)
(* setLevelToFriend, getComponentsOfFriendsWithLevel).                     *)
(*                                                                         *)
(* A person is a record [name, gender, best, friends].  A name is a        *)
(* natural number: its rank in the collation order localeCompare uses, so  *)
(* that equal numbers are equal strings.  A collection of fewer than       *)
(* MaxPersons persons leaves names that friends lists hold and no person   *)
(* carries.                                                                *)
(***************************************************************************)
EXTENDS Integers, Sequences, FiniteSets, TLC

VARIABLES persons, ctor, filter, maxLevel, this, pc, ret, calls

vars == <<persons, ctor, filter, maxLevel, this, pc, ret, calls>>

(* ------------------------------ bounds --------------------------------- *)
\* the persons of a collection
MaxPersons == 3
\* the longest friends list of the graph analysis specification
MaxFriends == 2
\* the longest friends list of the filter and traversal specifications
MaxFriendsShort == 1
\* the calls of next() on one object
MaxCalls == 5

(* ----------------------------- constants ------------------------------- *)
MALE == "male"
FEMALE == "female"

(* ------------------------- JavaScript values --------------------------- *)
Undefined == [undefined |-> TRUE]
Null == [null |-> TRUE]

Range(s) == {s[i] : i \in 1..Len(s)}

\* Array.prototype.includes
includes(arr, x) == \E i \in 1..Len(arr) : arr[i] = x

\* Array.prototype.find with the predicate x => x.name === name
findByName(arr, name) ==
    IF \E i \in 1..Len(arr) : arr[i].name = name
    THEN arr[CHOOSE i \in 1..Len(arr) :
                 /\ arr[i].name = name
                 /\ \A j \in 1..(i - 1) : arr[j].name # name]
    ELSE Undefined

\* Array.prototype.map with x => x.friend
mapFriend(nodes) == [i \in 1..Len(nodes) |-> nodes[i].friend]

\* Array.prototype.map with x => x.name
mapName(arr) == [i \in 1..Len(arr) |-> arr[i].name]

\* Array.prototype.reduce with (res, curr) => res.concat(curr), from []
RECURSIVE concatAll(_)
concatAll(arrs) ==
    IF arrs = <<>> THEN <<>> ELSE Head(arrs) \o concatAll(Tail(arrs))

\* String.prototype.localeCompare on names: negative, zero or positive
localeCompare(x, y) == IF x < y THEN -1 ELSE IF x = y THEN 0 ELSE 1

LevelConstructor(friend, level) == [friend |-> friend, level |-> level]

(* ----------------------- connected components -------------------------- *)
\* the while loop of breadthSearch
RECURSIVE breadthSearchLoop(_, _, _)
breadthSearchLoop(visited, queue, graph) ==
    IF Len(queue) > 0
    THEN LET node == Head(queue)
             nextNodes ==
                 SelectSeq(SelectSeq(graph, LAMBDA x : includes(node.friends, x.name)),
                           LAMBDA x : ~includes(visited, x))
         IN breadthSearchLoop(visited \o nextNodes, Tail(queue) \o nextNodes, graph)
    ELSE visited

breadthSearch(startNode, graph) ==
    breadthSearchLoop(<<startNode>>, <<startNode>>, graph)

\* the while loop of findConnectedComponents
RECURSIVE findConnectedComponentsLoop(_, _, _)
findConnectedComponentsLoop(visited, components, graph) ==
    IF \E i \in 1..Len(graph) : ~includes(visited, graph[i].name)
    THEN LET node == graph[CHOOSE i \in 1..Len(graph) :
                               /\ ~includes(visited, graph[i].name)
                               /\ \A j \in 1..(i - 1) : includes(visited, graph[j].name)]
             search == breadthSearch(node, graph)
         IN findConnectedComponentsLoop(visited \o mapName(search),
                                        Append(components, search), graph)
    ELSE components

findConnectedComponents(graph) == findConnectedComponentsLoop(<<>>, <<>>, graph)

(* --------------------------- level assigner ---------------------------- *)
\* Set.prototype.add on a Set kept in insertion order
setAdd(set, x) == IF includes(set, x) THEN set ELSE Append(set, x)

\* the inner for loop of setLevelToFriend: the friends of one node
RECURSIVE addFriendsOf(_, _, _)
addFriendsOf(set, names, friends) ==
    IF names = <<>> THEN set
    ELSE addFriendsOf(setAdd(set, findByName(friends, Head(names))), Tail(names), friends)

\* the outer for loop of setLevelToFriend: every node
RECURSIVE collectAllFriends(_, _, _)
collectAllFriends(set, nodes, friends) ==
    IF nodes = <<>> THEN set
    ELSE collectAllFriends(addFriendsOf(set, Head(nodes).friend.friends, friends),
                           Tail(nodes), friends)

RECURSIVE setLevelToFriend(_, _, _, _)
setLevelToFriend(nodes, friends, currentLevel, maxLevelArg) ==
    IF currentLevel > maxLevelArg \/ Len(friends) = Len(nodes)
    THEN nodes
    ELSE LET setOfAllFriends == collectAllFriends(<<>>, nodes, friends)
             allFriends ==
                 SelectSeq(SelectSeq(setOfAllFriends, LAMBDA x : x # Undefined),
                           LAMBDA x : ~includes(mapFriend(nodes), x))
             pushed == nodes \o [i \in 1..Len(allFriends) |->
                                    LevelConstructor(allFriends[i], currentLevel)]
         IN setLevelToFriend(pushed, friends, currentLevel + 1, maxLevelArg)

\* getFriendsLevels that begins the layering at level 1 instead of 2
getFriendsLevelsFromLevelOne(friends, maxLevelArg) ==
    LET best == SelectSeq(friends, LAMBDA friend : friend.best)
        nodes == [i \in 1..Len(best) |-> LevelConstructor(best[i], 1)]
    IN IF maxLevelArg <= 0 \/ Len(nodes) < 1
       THEN <<>>
       ELSE setLevelToFriend(nodes, friends, 1, maxLevelArg)

\* getFriendsLevels that rejects only a negative depth
getFriendsLevelsNegativeOnly(friends, maxLevelArg) ==
    LET best == SelectSeq(friends, LAMBDA friend : friend.best)
        nodes == [i \in 1..Len(best) |-> LevelConstructor(best[i], 1)]
    IN IF maxLevelArg < 0 \/ Len(nodes) < 1
       THEN <<>>
       ELSE setLevelToFriend(nodes, friends, 2, maxLevelArg)

\* the third parameter, nodes, is overwritten before it is read
getFriendsLevels(friends, maxLevelArg) ==
    LET best == SelectSeq(friends, LAMBDA friend : friend.best)
        nodes == [i \in 1..Len(best) |-> LevelConstructor(best[i], 1)]
    IN IF maxLevelArg <= 0 \/ Len(nodes) < 1
       THEN <<>>
       ELSE setLevelToFriend(nodes, friends, 2, maxLevelArg)

(* -------------------------------- ranker ------------------------------- *)
\* Array.prototype.sort (stable) with the comparator of line 84
RECURSIVE insertSorted(_, _)
insertSorted(sorted, x) ==
    IF sorted = <<>> THEN <<x>>
    ELSE LET last == sorted[Len(sorted)]
         IN IF localeCompare(last.friend.name, x.friend.name) > 0
            THEN Append(insertSorted(SubSeq(sorted, 1, Len(sorted) - 1), x), last)
            ELSE Append(sorted, x)

\* a sort that leaves the bucket in insertion order
sortByNameNot(arr) == arr

RECURSIVE sortByName(_)
sortByName(arr) ==
    IF arr = <<>> THEN <<>>
    ELSE insertSorted(sortByName(SubSeq(arr, 1, Len(arr) - 1)), arr[Len(arr)])

\* the for loop of lines 72-78: push every entry into the bucket of its level
RECURSIVE pushLevels(_, _)
pushLevels(levels, newFriendsWithLevels) ==
    IF newFriendsWithLevels = <<>> THEN levels
    ELSE LET friend == Head(newFriendsWithLevels)
             level == friend.level
             bucket == IF level \in DOMAIN levels THEN levels[level] ELSE <<>>
         IN pushLevels([l \in DOMAIN levels \cup {level} |->
                           IF l = level THEN Append(bucket, friend) ELSE levels[l]],
                       Tail(newFriendsWithLevels))

\* the reduce of lines 70-81 over the components
RECURSIVE reduceComponents(_, _, _)
reduceComponents(levels, graphComponents, maxLevelArg) ==
    IF graphComponents = <<>> THEN levels
    ELSE reduceComponents(
             pushLevels(levels, getFriendsLevels(Head(graphComponents), maxLevelArg)),
             Tail(graphComponents), maxLevelArg)

\* Object.values of an object with integer keys: ascending key order
RECURSIVE objectValues(_)
objectValues(levels) ==
    IF DOMAIN levels = {} THEN <<>>
    ELSE LET k == CHOOSE k \in DOMAIN levels : \A l \in DOMAIN levels : k <= l
         IN <<levels[k]>> \o objectValues([l \in DOMAIN levels \ {k} |-> levels[l]])

emptyObject == [l \in {} |-> <<>>]

\* lines 69-84: the buckets after the in-place sort of each
componentsWithLevels(friends, maxLevelArg) ==
    LET levels == reduceComponents(emptyObject, findConnectedComponents(friends),
                                   maxLevelArg)
    IN [l \in DOMAIN levels |-> sortByName(levels[l])]

\* lines 86-87: the concatenated buckets, before the projection
leveledFriends(friends, maxLevelArg) ==
    concatAll(objectValues(componentsWithLevels(friends, maxLevelArg)))

getComponentsOfFriendsWithLevel(friends, maxLevelArg) ==
    mapFriend(leveledFriends(friends, maxLevelArg))

(* -------------------------------- filters ------------------------------ *)
\* An object is [chain, filterFunction]: its prototype chain and its own
\* filterFunction property (Undefined when it has none).  A filterFunction
\* person => person.gender === G is the record [gender |-> G].
Filter == [chain |-> <<"Filter.prototype", "Object.prototype">>,
           filterFunction |-> Undefined]

MaleFilter == [chain |-> <<"MaleFilter.prototype", "Filter.prototype", "Object.prototype">>,
               filterFunction |-> [gender |-> MALE]]

FemaleFilter == [chain |-> <<"FemaleFilter.prototype", "Filter.prototype", "Object.prototype">>,
                 filterFunction |-> [gender |-> FEMALE]]

\* a check that takes any object for a Filter
instanceofFilterAnyObject(obj) == obj.chain # <<>>

\* filter instanceof Filter
instanceofFilter(obj) == includes(obj.chain, "Filter.prototype")

\* filterArray that ignores the filterFunction
filterArrayAll(self, arrayToFilter) == arrayToFilter

filterArray(self, arrayToFilter) ==
    IF self.filterFunction # Undefined
    THEN SelectSeq(arrayToFilter, LAMBDA friend : friend.gender = self.filterFunction.gender)
    ELSE arrayToFilter

(* ------------------------------ iterators ------------------------------ *)
\* an Iterator whose depth is one short of the number of persons
IteratorFriendsOneShort(friends, f) ==
    filterArray(f, getComponentsOfFriendsWithLevel(friends, Len(friends) - 1))

\* line 17: the sequence an Iterator materializes
IteratorFriends(friends, f) ==
    filterArray(f, getComponentsOfFriendsWithLevel(friends, Len(friends)))

\* lines 45-48: the sequence a LimitedIterator materializes
LimitedIteratorFriends(friends, f, maxLevelArg) ==
    filterArray(f, getComponentsOfFriendsWithLevel(friends, maxLevelArg))

\* the value undefined passed as the filter: a primitive has no prototype chain
undefinedFilter == [chain |-> <<>>, filterFunction |-> Undefined]

\* a plain object that carries a filterFunction but is no Filter
plainObject == [chain |-> <<"Object.prototype">>, filterFunction |-> [gender |-> MALE]]

FilterArgs == {Filter, MaleFilter, FemaleFilter, undefinedFilter, plainObject}

NoObject == <<>>
NoReturn == [op |-> "none"]

\* new Iterator(persons, f)
Iterator(f) ==
    /\ pc = "start"
    /\ ctor' = "Iterator"
    /\ filter' = f
    /\ IF ~instanceofFilter(f)
       THEN /\ pc' = "TypeError"
            /\ UNCHANGED this
       ELSE /\ pc' = "ready"
            /\ this' = [nextIndex |-> 0, friends |-> IteratorFriends(persons, f)]
    /\ UNCHANGED <<persons, maxLevel, ret, calls>>

\* new LimitedIterator(persons, f, m)
LimitedIterator(f, m) ==
    /\ pc = "start"
    /\ ctor' = "LimitedIterator"
    /\ filter' = f
    /\ maxLevel' = m
    /\ IF ~instanceofFilter(f)
       THEN /\ pc' = "TypeError"
            /\ UNCHANGED this
       ELSE /\ pc' = "ready"
            /\ this' = [nextIndex |-> 0, friends |-> LimitedIteratorFriends(persons, f, m)]
    /\ UNCHANGED <<persons, ret, calls>>

\* Iterator.prototype.next: the value returned
nextValue(self) ==
    IF self.nextIndex < Len(self.friends)
    THEN self.friends[self.nextIndex + 1]
    ELSE Null

\* next() that advances the cursor past the end
nextObjectAlways(self) == [self EXCEPT !.nextIndex = @ + 1]

\* Iterator.prototype.next: the object after the call (nextIndex++)
nextObject(self) ==
    IF self.nextIndex < Len(self.friends)
    THEN [self EXCEPT !.nextIndex = @ + 1]
    ELSE self

\* done() that compares with > instead of >=
doneValuePastEnd(self) == self.nextIndex > Len(self.friends)

\* Iterator.prototype.done: the value returned
doneValue(self) == self.nextIndex >= Len(self.friends)

\* a call of next() on the constructed object
next ==
    /\ pc = "ready"
    /\ calls < MaxCalls
    /\ calls' = calls + 1
    /\ ret' = [op |-> "next", value |-> nextValue(this)]
    /\ this' = nextObject(this)
    /\ UNCHANGED <<persons, ctor, filter, maxLevel, pc>>

\* a call of done() on the constructed object
done ==
    /\ pc = "ready"
    /\ ret' = [op |-> "done", value |-> doneValue(this)]
    /\ UNCHANGED <<persons, ctor, filter, maxLevel, this, pc, calls>>

(* ------------------------------- inputs -------------------------------- *)
Names == 1..MaxPersons

IsInjective(f) == \A i, j \in DOMAIN f : f[i] = f[j] => i = j

IsAscending(f) == \A i, j \in DOMAIN f : i < j => f[i] < f[j]

\* friends lists without repetition, of at most k names out of S
FriendLists(S, k) == UNION {{f \in [1..n -> S] : IsInjective(f)} : n \in 0..k}

Person(name, gender, best, friends) ==
    [name |-> name, gender |-> gender, best |-> best, friends |-> friends]

\* the collections of n persons whose names are listed in one of the orders
Collections(n, orders, lists, genders) ==
    {[i \in 1..n |-> Person(nm[i], g[i], b[i], fr[i])] :
        nm \in {f \in [1..n -> Names] : f \in orders},
        g \in [1..n -> genders], b \in [1..n -> BOOLEAN], fr \in [1..n -> lists]}

\* every order of n unique names, and the ascending ones
AnyOrder(n) == {f \in [1..n -> Names] : IsInjective(f)}
NameOrder(n) == {f \in [1..n -> Names] : IsAscending(f)}

MaxLevels == (0 - 1)..(MaxPersons + 1)

InitObject ==
    /\ ctor = "none"
    /\ filter = undefinedFilter
    /\ maxLevel = 0
    /\ this = NoObject
    /\ pc = "start"
    /\ ret = NoReturn
    /\ calls = 0

(* ----- graph analysis: the constructors with the accept-all Filter ----- *)
InitRank ==
    /\ persons \in UNION {Collections(n, AnyOrder(n), FriendLists(Names, MaxFriends), {MALE}) :
                             n \in 0..MaxPersons}
    /\ InitObject

NextRank ==
    \/ Iterator(Filter)
    \/ \E m \in MaxLevels : LimitedIterator(Filter, m)

SpecRank == InitRank /\ [][NextRank]_vars

(* ------- filtering: the constructors with every kind of filter --------- *)
InitFilter ==
    /\ persons \in UNION {Collections(n, AnyOrder(n), FriendLists(Names, MaxFriendsShort), {MALE, FEMALE}) :
                             n \in 0..MaxPersons}
    /\ InitObject

NextFilter ==
    \/ \E f \in FilterArgs : Iterator(f)
    \/ \E f \in FilterArgs, m \in MaxLevels : LimitedIterator(f, m)

SpecFilter == InitFilter /\ [][NextFilter]_vars

(* ------------- traversal: construction, then next and done ------------- *)
Init ==
    /\ persons \in UNION {Collections(n, NameOrder(n), FriendLists(Names, MaxFriendsShort), {MALE}) :
                             n \in 0..MaxPersons}
    /\ InitObject

Next ==
    \/ \E f \in FilterArgs : Iterator(f)
    \/ \E f \in FilterArgs, m \in MaxLevels : LimitedIterator(f, m)
    \/ next
    \/ done

Spec == Init /\ [][Next]_vars

(* ======================================================================= *)
(*                               properties                                *)
(* ======================================================================= *)

\* the depth the constructor of the current object hands to the graph analysis
Depth == IF ctor = "Iterator" THEN Len(persons) ELSE maxLevel

\* how often person p occurs in the sequence arr
Occurrences(arr, p) == Cardinality({i \in 1..Len(arr) : arr[i] = p})

\* the persons of collection c named by the friends lists of the persons in S
FriendsOf(c, S) == {q \in Range(c) : \E p \in S : includes(p.friends, q.name)}

\* the persons of c at most k friend hops away from a best person of c
RECURSIVE Within(_, _)
Within(c, k) ==
    IF k <= 0 THEN {p \in Range(c) : p.best}
    ELSE Within(c, k - 1) \cup FriendsOf(c, Within(c, k - 1))

\* the persons of c reachable from a best person of c at any distance
Reachable(c) == Within(c, Len(c))

\* the least number of hops from a best person of c to p
Hops(c, p) == CHOOSE k \in 0..Len(c) :
                  /\ p \in Within(c, k)
                  /\ \A j \in 0..(k - 1) : p \notin Within(c, j)

(* ---------------------------------- C1 --------------------------------- *)
\* C1: findConnectedComponents returns components in which every person of
\* the collection appears exactly once: the components are pairwise disjoint
\* and cover the collection, whatever the friends lists contain.
C1_EveryPersonInExactlyOneComponent ==
    pc = "ready" =>
        \A p \in Range(persons) :
            Occurrences(concatAll(findConnectedComponents(persons)), p) = 1

(* ---------------------------------- C10 -------------------------------- *)
\* C10: the sequence an Iterator or LimitedIterator materializes holds no
\* person more than once, so next() never returns the same person twice.
C10_NoPersonTwice ==
    pc = "ready" =>
        \A p \in Range(persons) : Occurrences(this.friends, p) <= 1

(* ---------------------------------- C2 --------------------------------- *)
\* the levels getFriendsLevels gives: every person of component c at most
\* m - 1 hops from a best person of c has exactly one entry, of level 1 + its
\* least number of hops; nobody else has an entry
LevelsAreDistances(c, m) ==
    LET nodes == getFriendsLevels(c, m)
    IN /\ \A i \in 1..Len(nodes) : nodes[i].friend \in Range(c)
       /\ \A p \in Range(c) :
            IF p \in Within(c, m - 1)
            THEN /\ Occurrences(mapFriend(nodes), p) = 1
                 /\ \A i \in 1..Len(nodes) :
                        nodes[i].friend = p => nodes[i].level = 1 + Hops(c, p)
            ELSE Occurrences(mapFriend(nodes), p) = 0

\* C2: for every component and every depth bound maxLevel >= 1,
\* getFriendsLevels assigns a level to a person if and only if the person is
\* at most maxLevel - 1 friend hops from a best person of the component, it
\* assigns exactly one level, and the level is 1 plus the least number of hops.
C2_LevelIsOnePlusHops ==
    (pc = "ready" /\ Depth >= 1) =>
        LET graphComponents == findConnectedComponents(persons)
        IN \A k \in 1..Len(graphComponents) :
               LevelsAreDistances(graphComponents[k], Depth)

\* a component of three persons analysed with depth 2: its best person has
\* level 1, a friend has level 2, and the person two hops away has none
C2_Witness ==
    /\ pc = "ready"
    /\ Depth = 2
    /\ LET graphComponents == findConnectedComponents(persons)
       IN \E k \in 1..Len(graphComponents) :
              LET c == graphComponents[k]
                  nodes == getFriendsLevels(c, Depth)
              IN /\ Len(c) = 3
                 /\ Len(nodes) = 2
                 /\ \E i \in 1..Len(nodes) : nodes[i].level = 2
                 /\ \E p \in Range(c) : p \in Within(c, 2) \ Within(c, 1)

(* ---------------------------------- C3 --------------------------------- *)
\* arr, a sequence of entries [friend, level], is ordered by (level, name)
OrderedByLevelThenName(arr) ==
    \A i, j \in 1..Len(arr) :
        i < j => \/ arr[i].level < arr[j].level
                 \/ /\ arr[i].level = arr[j].level
                    /\ arr[i].friend.name <= arr[j].friend.name

\* C3: the sequence getComponentsOfFriendsWithLevel returns is ordered by
\* the key (level, name) over all components combined: levels never decrease
\* along the sequence and, within one level, names never decrease.
C3_OrderedByLevelThenName ==
    pc = "ready" =>
        LET leveled == leveledFriends(persons, Depth)
        IN /\ this.friends = mapFriend(leveled)
           /\ this.friends = getComponentsOfFriendsWithLevel(persons, Depth)
           /\ OrderedByLevelThenName(leveled)

\* two components, the first with the alphabetically later best person, and
\* a second level: the best persons interleave before the level-2 person
C3_Witness ==
    /\ pc = "ready"
    /\ LET graphComponents == findConnectedComponents(persons)
           leveled == leveledFriends(persons, Depth)
       IN /\ Len(graphComponents) = 2
          /\ Len(leveled) = 3
          /\ leveled[1].level = 1 /\ leveled[2].level = 1 /\ leveled[3].level = 2
          /\ leveled[1].friend \in Range(graphComponents[2])
          /\ leveled[2].friend \in Range(graphComponents[1])
          /\ leveled[3].friend \in Range(graphComponents[1])
          /\ leveled[3].friend.name < leveled[1].friend.name

(* ---------------------------------- C4 --------------------------------- *)
\* C4: the depth persons.length an Iterator uses loses nobody: the Iterator
\* materializes the same sequence as a LimitedIterator with any maxLevel >=
\* persons.length, and with the accept-all Filter it holds every person
\* reachable, at any distance, from a best person.
C4_IteratorDepthLosesNobody ==
    (pc = "ready" /\ ctor = "Iterator") =>
        /\ \A m \in Len(persons)..(Len(persons) + 2) :
               this.friends = LimitedIteratorFriends(persons, filter, m)
        /\ filter = Filter =>
               \A p \in Reachable(persons) : includes(this.friends, p)

\* an Iterator with the accept-all Filter over a chain of three persons: the
\* last one is two hops from the best person and is in the sequence
C4_Witness ==
    /\ pc = "ready"
    /\ ctor = "Iterator"
    /\ filter = Filter
    /\ Len(persons) = 3
    /\ \E p \in Reachable(persons) :
           /\ Hops(persons, p) = 2
           /\ includes(this.friends, p)

(* ---------------------------------- C5 --------------------------------- *)
\* the persons a filter accepts
Accepts(f, p) ==
    CASE f = Filter -> TRUE
      [] f = MaleFilter -> p.gender = "male"
      [] f = FemaleFilter -> p.gender = "female"

\* the circle of a person reachable from a best person
Circle(p) == 1 + Hops(persons, p)

\* C5: a LimitedIterator materializes exactly the persons the filter accepts
\* whose circle lies in 1..maxLevel; for maxLevel <= 0 construction succeeds,
\* the sequence is empty, done() is true and next() returns null.
C5_OnlyCirclesUpToMaxLevel ==
    (pc = "ready" /\ ctor = "LimitedIterator") =>
        /\ Range(this.friends) =
               {p \in Reachable(persons) : Accepts(filter, p) /\ Circle(p) <= maxLevel}
        /\ maxLevel <= 0 =>
               /\ this.friends = <<>>
               /\ doneValue(this)
               /\ nextValue(this) = Null

\* a LimitedIterator with maxLevel 2 and the FemaleFilter that yields
\* somebody, leaves out an accepted person of circle 3 and a rejected person
\* of a circle within the bound
C5_Witness ==
    /\ pc = "ready"
    /\ ctor = "LimitedIterator"
    /\ maxLevel = 2
    /\ filter = FemaleFilter
    /\ this.friends # <<>>
    /\ \E p \in Reachable(persons) :
           p.gender = "female" /\ Circle(p) = 3 /\ ~includes(this.friends, p)
    /\ \E p \in Reachable(persons) :
           p.gender = "male" /\ Circle(p) <= 2 /\ ~includes(this.friends, p)

(* ---------------------------------- C8 --------------------------------- *)
\* C8: constructing an Iterator or a LimitedIterator with a second argument
\* that is no Filter fails with a TypeError and sets neither cursor nor
\* sequence on the object; with a Filter, MaleFilter or FemaleFilter the
\* construction does not raise it.
C8_NonFilterIsTypeError ==
    pc # "start" =>
        /\ filter \in {undefinedFilter, plainObject} =>
               pc = "TypeError" /\ this = NoObject
        /\ filter \in {Filter, MaleFilter, FemaleFilter} =>
               pc = "ready" /\ DOMAIN this = {"nextIndex", "friends"}

\* a LimitedIterator over three persons refused a plain object that carries
\* a filterFunction
C8_Witness ==
    /\ pc = "TypeError"
    /\ ctor = "LimitedIterator"
    /\ filter = plainObject
    /\ maxLevel = 2
    /\ Len(persons) = 3

(* ---------------------------------- C9 --------------------------------- *)
\* the k-th smallest member of a set of numbers
KthSmallest(S, k) == CHOOSE j \in S : Cardinality({x \in S : x < j}) = k - 1

\* out holds the persons of arr that f accepts, in the order they have in arr
IsAcceptedSubsequence(out, arr, f) ==
    LET accepted == {j \in 1..Len(arr) : Accepts(f, arr[j])}
    IN /\ Len(out) = Cardinality(accepted)
       /\ \A i \in 1..Len(out) : out[i] = arr[KthSmallest(accepted, i)]

\* C9: filterArray returns exactly the persons of the ranked sequence that
\* satisfy the predicate, in their original relative order: all of them for
\* Filter, the 'male' ones for MaleFilter, the 'female' ones for FemaleFilter.
C9_FilterKeepsAcceptedInOrder ==
    pc = "ready" =>
        LET ranked == getComponentsOfFriendsWithLevel(persons, Depth)
        IN /\ this.friends = filterArray(filter, ranked)
           /\ IsAcceptedSubsequence(this.friends, ranked, filter)
           /\ filter = Filter => this.friends = ranked

\* the MaleFilter takes the first and the third of three ranked persons
C9_Witness ==
    /\ pc = "ready"
    /\ filter = MaleFilter
    /\ LET ranked == getComponentsOfFriendsWithLevel(persons, Depth)
       IN /\ Len(ranked) = 3
          /\ ranked[1].gender = "male"
          /\ ranked[2].gender = "female"
          /\ ranked[3].gender = "male"
          /\ this.friends = <<ranked[1], ranked[3]>>

(* ---------------------------------- C6 --------------------------------- *)
\* C6: done() returns true if and only if the next call of next() would
\* return null, and done() leaves the cursor and the sequence unchanged.
C6_DoneIffNextReturnsNull ==
    [][/\ done => /\ this' = this
                  /\ ret'.value <=> (nextValue(this) = Null)
       /\ (ret.op = "done" /\ next) => (ret.value <=> (ret'.value = Null))]_vars

\* done() answered true after two persons were drained
C6_Witness ==
    /\ pc = "ready"
    /\ ret = [op |-> "done", value |-> TRUE]
    /\ this.nextIndex = 2
    /\ Len(this.friends) = 2

(* ---------------------------------- C7 --------------------------------- *)
\* C7: with a sequence of length n, the k-th call of next() returns the k-th
\* element and advances the cursor by one for k <= n, every later call
\* returns null and leaves the cursor unchanged; the cursor never decreases
\* and stays within 0..n.
C7_NextWalksTheSequence ==
    [][/\ pc' = "ready" => /\ 0 <= this'.nextIndex
                           /\ this'.nextIndex <= Len(this'.friends)
       /\ (pc = "ready" /\ pc' = "ready") =>
              /\ this'.nextIndex >= this.nextIndex
              /\ this'.friends = this.friends
       /\ next => IF calls' <= Len(this.friends)
                  THEN /\ ret'.value = this.friends[calls']
                       /\ this'.nextIndex = this.nextIndex + 1
                  ELSE /\ ret'.value = Null
                       /\ this'.nextIndex = this.nextIndex]_vars

\* next() returned null on the call after a sequence of three was drained
C7_Witness ==
    /\ pc = "ready"
    /\ Len(this.friends) = 3
    /\ calls = 4
    /\ this.nextIndex = 3
    /\ ret = [op |-> "next", value |-> Null]

====
